---- MODULE Spec2Model ----
(***************************************************************************)
(* Bayes plugin of the SMTP sieve runtime                                  *)
(* (crates/smtp/src/scripts/plugins/bayes.rs): bayes_train, bayes_untrain  *)
(* and bayes_classify over a shared token cache and a lookup store.        *)
(*                                                                         *)
(* A call is executed by a thread (an element of Procs).  Every store call *)
(* (handle.block_on) and every cache call is one step of the thread, so    *)
(* calls of different threads interleave between them.                     *)
(***************************************************************************)
EXTENDS Integers, Sequences, FiniteSets, TLC

\* ---------------------------------------------------------------- bounds
NumHashes == 2
MaxLen == 2
MaxCount == 1
MaxCalls == 2

\* ------------------------------------------------------------ value sets
Procs == {"t1", "t2"}
Main == "t1"

TotalsKey == 0
Hashes == 1..NumHashes
Keys == {TotalsKey} \cup Hashes

KnownId == "spamdb"
LookupIds == {KnownId, "nodb"}
Registry == {KnownId}

RECURSIVE SeqsUpTo(_, _)
SeqsUpTo(S, n) ==
    IF n = 0 THEN {<<>>}
    ELSE LET shorter == SeqsUpTo(S, n - 1)
         IN  shorter \cup {Append(s, x) : s \in {t \in shorter : Len(t) = n - 1}, x \in S}

\* A text is its number of characters and its words, a word written as the
\* hash the tokenizer gives for it: the empty string, a string of words, or a
\* string of one character that is no word.
Text(n, ws) == [chars |-> n, words |-> ws]
Texts == {Text(Len(ws), ws) : ws \in SeqsUpTo(Hashes, MaxLen)} \cup {Text(1, <<>>)}
EmptyText == Text(0, <<>>)
IsEmpty(text) == text.chars = 0

Ops == {"train", "untrain", "classify"}
Calls == [op : {"train", "untrain"}, id : LookupIds, text : Texts, spam : BOOLEAN]
         \cup [op : {"classify"}, id : LookupIds, text : Texts, spam : {FALSE}]
NoCall == [op |-> "none", id |-> KnownId, text |-> EmptyText, spam |-> FALSE]

\* ----------------------------------------------------------- data types
Weights(s, h) == [spam |-> s, ham |-> h]
WeightsDefault == Weights(0, 0)

\* `as u32` of an i64 column.  The cast reduces modulo 2^32; the counters of
\* the store are saturated at zero and stay below 2^31 here (the integers TLC
\* has), a range on which the reduction leaves the value as it is.
AsU32(x) == IF x >= 0 THEN x ELSE x + 2147483647 + 2147483647 + 2

\* Cache entries.
Unknown == [st |-> "Unknown", w |-> WeightsDefault]
Absent == [st |-> "Absent", w |-> WeightsDefault]
Present(w) == [st |-> "Present", w |-> w]

\* Option<T> as a sequence of length 0 or 1.
None == <<>>
Some(x) == <<x>>

\* The token stream of a text: one OsbToken {inner: hash, idx} per word.
Tokenize(text) ==
    [i \in 1..Len(text.words) |-> [inner |-> text.words[i], idx |-> i]]

RECURSIVE CountOf(_, _)
CountOf(toks, h) ==
    IF toks = <<>> THEN 0
    ELSE (IF Head(toks).inner = h THEN 1 ELSE 0) + CountOf(Tail(toks), h)

\* BayesModel::train: one entry per distinct hash, counting its occurrences on
\* the axis of the label.
ModelTrain(toks, is_spam) ==
    [h \in {toks[i].inner : i \in 1..Len(toks)} |->
        IF is_spam THEN Weights(CountOf(toks, h), 0) ELSE Weights(0, CountOf(toks, h))]

\* ------------------------------------------------------------ the store
\* A row is a sequence of integer columns: <<>> when the key has no row.
NoRow == <<>>
Sat(x) == IF x < 0 THEN 0 ELSE x
RowSpam(row) == IF Len(row) >= 2 THEN row[1] ELSE 0
RowHam(row) == IF Len(row) >= 2 THEN row[2] ELSE 0

\* Lookup::lookup with [h1, h2, ds, dh]: read-modify-write, saturating at zero.
StoreLookup(st, k, ds, dh) ==
    [st EXCEPT ![k] = <<Sat(RowSpam(st[k]) + ds), Sat(RowHam(st[k]) + dh)>>]

\* Lookup::query: read-only, whatever the number of columns passed.
StoreQuery(st, k) == st[k]
StoreAfterQuery(st, k, a, b) == st

\* The rows a store starts with: any training counts up to MaxCount; a token
\* without a row, never seen on either axis, or seen up to MaxCount times on both.
InitTotals == {NoRow} \cup {<<s, h>> : s \in 0..MaxCount, h \in 0..MaxCount}
InitTokens == {NoRow, <<0, 0>>} \cup {<<n, n>> : n \in 1..MaxCount}
InitStores ==
    {st \in [Keys -> InitTotals \cup InitTokens] :
        /\ st[TotalsKey] \in InitTotals
        /\ \A h \in Hashes : st[h] \in InitTokens}

\* ----------------------------------------------------------------- state
VARIABLES
    store,       \* the lookup store registered under KnownId: key -> row
    cache,       \* BayesTokenCache: key -> Unknown | Absent | Present(w)
    min_learns,  \* bayes_classify.min_learns
    pc,          \* per thread: where its call stands
    call,        \* per thread: the arguments of its call
    loc,         \* per thread: the locals of its call
    ret,         \* per thread: the value the call returned
    warns,       \* per thread: WARN records emitted by its call
    log,         \* per thread: store and cache operations issued by its call
    pre,         \* per thread: store and cache when its call began
    last,        \* per thread: its previous call, result, log and pre-state
    ncalls,      \* calls begun so far
    mon          \* scenario monitor (train X spam, then untrain X spam)

vars == <<store, cache, min_learns, pc, call, loc, ret, warns, log, pre, last, ncalls, mon>>

\* One entry of a call's log: a store operation ("lookup", "query") with the
\* number of columns passed, the deltas and whether it succeeded, or a cache
\* operation ("get", "insert_positive", "insert_negative", "invalidate").
Ev(e, k, n, a, b, ok) == [e |-> e, k |-> k, n |-> n, a |-> a, b |-> b, ok |-> ok]
CacheEv(e, k) == Ev(e, k, 0, 0, 0, TRUE)

LocInit ==
    [model |-> <<>>, key |-> TotalsKey, phase |-> "none", i |-> 0, toks |-> <<>>,
     acc |-> <<>>, learns |-> WeightsDefault, fetched |-> NoRow, kinv |-> None,
     kres |-> "none"]

Snapshot == [store |-> store, cache |-> cache]

\* After construction: the cache is empty and no call was made.  The store,
\* the minimum and the text the scenarios are about are drawn from stores,
\* mins and subjects.
InitWith(stores, mins, subjects) ==
    /\ store \in stores
    /\ cache = [k \in Keys |-> Unknown]
    /\ min_learns \in mins
    /\ pc = [p \in Procs |-> "idle"]
    /\ call = [p \in Procs |-> NoCall]
    /\ loc = [p \in Procs |-> LocInit]
    /\ ret = [p \in Procs |-> "none"]
    /\ warns = [p \in Procs |-> 0]
    /\ log = [p \in Procs |-> <<>>]
    /\ pre = [p \in Procs |-> Snapshot]
    /\ last = [p \in Procs |->
                 [call |-> NoCall, ret |-> "none", log |-> <<>>, pre |-> Snapshot]]
    /\ ncalls = 0
    /\ \E x \in subjects : mon = [st |-> 0, text |-> x, zero |-> FALSE, cached |-> FALSE]

Init == InitWith(InitStores, 0..MaxCount, {EmptyText})

\* ------------------------------------------------------- train / untrain
Returns(p, r) ==
    /\ pc' = [pc EXCEPT ![p] = "done"]
    /\ ret' = [ret EXCEPT ![p] = r]

Logs(p, ev) == log' = [log EXCEPT ![p] = Append(@, ev)]

\* What every call starts with: the locals, the log and the WARN count are
\* those of a fresh call.  The call before it is filed in last when keep asks
\* for it.
Enter(p, c, keep) ==
    /\ pc[p] \in {"idle", "done"}
    /\ call' = [call EXCEPT ![p] = c]
    /\ last' = IF keep
               THEN [last EXCEPT ![p] =
                      [call |-> call[p], ret |-> ret[p], log |-> log[p], pre |-> pre[p]]]
               ELSE last
    /\ pre' = [pre EXCEPT ![p] = Snapshot]
    /\ log' = [log EXCEPT ![p] = <<>>]
    /\ ncalls' = ncalls + 1
    /\ UNCHANGED <<store, cache, min_learns>>

\* TrainBegin testing the text before the lookup id.
TrainBeginTextFirst(p, c, keep) ==
    /\ c.op \in {"train", "untrain"}
    /\ Enter(p, c, keep)
    /\ IF IsEmpty(c.text)
         THEN /\ warns' = [warns EXCEPT ![p] = 0]
              /\ loc' = [loc EXCEPT ![p] = LocInit]
              /\ Returns(p, "false")
         ELSE IF c.id \notin Registry
         THEN /\ warns' = [warns EXCEPT ![p] = 1]
              /\ loc' = [loc EXCEPT ![p] = LocInit]
              /\ Returns(p, "false")
         ELSE LET model == ModelTrain(Tokenize(c.text), c.spam)
              IN  /\ warns' = [warns EXCEPT ![p] = 0]
                  /\ IF DOMAIN model = {}
                       THEN /\ loc' = [loc EXCEPT ![p] = LocInit]
                            /\ Returns(p, "false")
                       ELSE /\ loc' = [loc EXCEPT ![p] =
                                         [LocInit EXCEPT !.model = model]]
                            /\ pc' = [pc EXCEPT ![p] = "train_lookup"]
                            /\ ret' = [ret EXCEPT ![p] = "none"]

\* train(ctx, is_train) up to its first store call: lines 56-87.
TrainBegin(p, c, keep) ==
    /\ c.op \in {"train", "untrain"}
    /\ Enter(p, c, keep)
    /\ IF c.id \notin Registry
         THEN /\ warns' = [warns EXCEPT ![p] = 1]
              /\ loc' = [loc EXCEPT ![p] = LocInit]
              /\ Returns(p, "false")
         ELSE /\ warns' = [warns EXCEPT ![p] = 0]
              /\ IF IsEmpty(c.text)
                   THEN /\ loc' = [loc EXCEPT ![p] = LocInit]
                        /\ Returns(p, "false")
                   ELSE LET model == ModelTrain(Tokenize(c.text), c.spam)
                        IN  IF DOMAIN model = {}
                             THEN /\ loc' = [loc EXCEPT ![p] = LocInit]
                                  /\ Returns(p, "false")
                             ELSE /\ loc' = [loc EXCEPT ![p] =
                                               [LocInit EXCEPT !.model = model]]
                                  /\ pc' = [pc EXCEPT ![p] = "train_lookup"]
                                  /\ ret' = [ret EXCEPT ![p] = "none"]

\* Delta negating the spam weight only on untrain.
DeltaHamKept(is_train, weights) ==
    IF is_train THEN <<weights.spam, weights.ham>>
    ELSE <<0 - weights.spam, weights.ham>>

\* The signed deltas of one model entry: lines 91-95.
Delta(is_train, weights) ==
    IF is_train THEN <<weights.spam, weights.ham>>
    ELSE <<0 - weights.spam, 0 - weights.ham>>

\* TrainLookup going on with the next token when the store fails.
TrainLookupContinues(p) ==
    /\ pc[p] = "train_lookup"
    /\ \E hash \in DOMAIN loc[p].model, ok \in BOOLEAN :
         LET d == Delta(call[p].op = "train", loc[p].model[hash])
         IN  /\ Logs(p, Ev("lookup", hash, 4, d[1], d[2], ok))
             /\ store' = IF ok THEN StoreLookup(store, hash, d[1], d[2]) ELSE store
             /\ loc' = [loc EXCEPT ![p].key = hash]
             /\ pc' = [pc EXCEPT ![p] = "train_invalidate"]
             /\ UNCHANGED ret
    /\ UNCHANGED <<cache, min_learns, call, warns, pre, last, ncalls>>

\* One iteration of the loop over model.weights, up to the store's answer:
\* lines 90-106.  The map is iterated in no particular order.
TrainLookup(p) ==
    /\ pc[p] = "train_lookup"
    /\ \E hash \in DOMAIN loc[p].model, ok \in BOOLEAN :
         LET d == Delta(call[p].op = "train", loc[p].model[hash])
         IN  /\ Logs(p, Ev("lookup", hash, 4, d[1], d[2], ok))
             /\ IF ok
                  THEN /\ store' = StoreLookup(store, hash, d[1], d[2])
                       /\ loc' = [loc EXCEPT ![p].key = hash]
                       /\ pc' = [pc EXCEPT ![p] = "train_invalidate"]
                       /\ UNCHANGED ret
                  ELSE /\ Returns(p, "false")
                       /\ UNCHANGED <<store, loc>>
    /\ UNCHANGED <<cache, min_learns, call, warns, pre, last, ncalls>>

\* TrainInvalidate leaving the cache entry of the token as it is.
TrainInvalidateSkipped(p) ==
    /\ pc[p] = "train_invalidate"
    /\ LET hash == loc[p].key
           rest == [h \in DOMAIN loc[p].model \ {hash} |-> loc[p].model[h]]
       IN  /\ loc' = [loc EXCEPT ![p].model = rest]
           /\ pc' = [pc EXCEPT ![p] =
                       IF DOMAIN rest = {} THEN "train_totals" ELSE "train_lookup"]
    /\ UNCHANGED <<store, cache, min_learns, call, ret, warns, log, pre, last, ncalls>>

\* ctx.bayes_cache.invalidate(&hash) and the loop's next iteration: line 107.
TrainInvalidate(p) ==
    /\ pc[p] = "train_invalidate"
    /\ LET hash == loc[p].key
           rest == [h \in DOMAIN loc[p].model \ {hash} |-> loc[p].model[h]]
       IN  /\ cache' = [cache EXCEPT ![hash] = Unknown]
           /\ Logs(p, CacheEv("invalidate", hash))
           /\ loc' = [loc EXCEPT ![p].model = rest]
           /\ pc' = [pc EXCEPT ![p] =
                       IF DOMAIN rest = {} THEN "train_totals" ELSE "train_lookup"]
    /\ UNCHANGED <<store, min_learns, call, ret, warns, pre, last, ncalls>>

\* The training counts: lines 110-116.
TrainCounts(is_train, is_spam) ==
    LET train_val == IF is_train THEN 1 ELSE 0 - 1
    IN  IF is_spam THEN <<train_val, 0>> ELSE <<0, train_val>>

\* Update training counts: lines 117-127, a query with four columns.
TrainTotals(p) ==
    /\ pc[p] = "train_totals"
    /\ \E ok \in BOOLEAN :
         LET d == TrainCounts(call[p].op = "train", call[p].spam)
         IN  /\ Logs(p, Ev("query", TotalsKey, 4, d[1], d[2], ok))
             /\ IF ok
                  THEN /\ store' = StoreAfterQuery(store, TotalsKey, d[1], d[2])
                       /\ pc' = [pc EXCEPT ![p] = "train_invalidate_totals"]
                       /\ UNCHANGED ret
                  ELSE /\ Returns(p, "false")
                       /\ UNCHANGED store
    /\ UNCHANGED <<cache, min_learns, call, loc, warns, pre, last, ncalls>>

\* ctx.bayes_cache.invalidate(&TokenHash::default()) and return: lines 128-130.
TrainInvalidateTotals(p) ==
    /\ pc[p] = "train_invalidate_totals"
    /\ cache' = [cache EXCEPT ![TotalsKey] = Unknown]
    /\ Logs(p, CacheEv("invalidate", TotalsKey))
    /\ Returns(p, "true")
    /\ UNCHANGED <<store, min_learns, call, loc, warns, pre, last, ncalls>>

\* --------------------------------------------------------------- classify
\* The gate looking at the spam count only.
NotEnoughTrainingSpamOnly(spam_learns, ham_learns, min) ==
    spam_learns < min

\* The gate looking at the ham count only.
NotEnoughTrainingHamOnly(spam_learns, ham_learns, min) ==
    ham_learns < min

\* Make sure we have enough training data: line 167.
NotEnoughTraining(spam_learns, ham_learns, min) ==
    spam_learns < min \/ ham_learns < min

\* The next token of the lazy sequence, or the end of it: lines 174-175.
NextToken(lc) ==
    IF lc.i > Len(lc.toks)
    THEN [pc |-> "kernel", loc |-> lc, ret |-> "none"]
    ELSE [pc |-> "cache_get", loc |-> [lc EXCEPT !.key = lc.toks[lc.i].inner],
          ret |-> "none"]

\* Resume giving up the whole classify when a token cannot be resolved.
ResumeAborting(lc, res, min) ==
    IF res = None
    THEN [pc |-> "done", loc |-> lc, ret |-> "absent"]
    ELSE IF lc.phase = "totals"
    THEN IF NotEnoughTraining(res[1].spam, res[1].ham, min)
         THEN [pc |-> "done", loc |-> [lc EXCEPT !.learns = res[1]], ret |-> "absent"]
         ELSE NextToken([lc EXCEPT
                 !.learns = res[1],
                 !.phase = "tokens",
                 !.i = 1,
                 !.kinv = Some([ham_learns |-> res[1].ham,
                                spam_learns |-> res[1].spam])])
    ELSE NextToken([lc EXCEPT
            !.acc = Append(@, [inner |-> res[1], idx |-> lc.toks[lc.i].idx]),
            !.i = @ + 1])

\* Resume leaving out the tokens whose weights are zero.
ResumeDroppingZero(lc, res, min) ==
    IF lc.phase = "totals"
    THEN IF res = None
         THEN [pc |-> "done", loc |-> lc, ret |-> "absent"]
         ELSE IF NotEnoughTraining(res[1].spam, res[1].ham, min)
              THEN [pc |-> "done", loc |-> [lc EXCEPT !.learns = res[1]],
                    ret |-> "absent"]
              ELSE NextToken([lc EXCEPT
                      !.learns = res[1],
                      !.phase = "tokens",
                      !.i = 1,
                      !.kinv = Some([ham_learns |-> res[1].ham,
                                     spam_learns |-> res[1].spam])])
    ELSE LET kept == IF res = None \/ res = Some(WeightsDefault) THEN lc.acc
                     ELSE Append(lc.acc, [inner |-> res[1], idx |-> lc.toks[lc.i].idx])
         IN  NextToken([lc EXCEPT !.acc = kept, !.i = @ + 1])

\* What exec_classify does with the answer of get_or_update: for the training
\* counts lines 157-169, for a token the filter_map of lines 175-183.
Resume(lc, res, min) ==
    IF lc.phase = "totals"
    THEN IF res = None
         THEN [pc |-> "done", loc |-> lc, ret |-> "absent"]
         ELSE LET spam_learns == res[1].spam
                  ham_learns == res[1].ham
              IN  IF NotEnoughTraining(spam_learns, ham_learns, min)
                  THEN [pc |-> "done", loc |-> [lc EXCEPT !.learns = res[1]],
                        ret |-> "absent"]
                  ELSE NextToken([lc EXCEPT
                          !.learns = res[1],
                          !.phase = "tokens",
                          !.i = 1,
                          !.kinv = Some([ham_learns |-> ham_learns,
                                         spam_learns |-> spam_learns])])
    ELSE LET kept == IF res = None THEN lc.acc
                     ELSE Append(lc.acc, [inner |-> res[1], idx |-> lc.toks[lc.i].idx])
         IN  NextToken([lc EXCEPT !.acc = kept, !.i = @ + 1])

Resumes(p, lc, res) ==
    LET r == Resume(lc, res, min_learns)
    IN  /\ pc' = [pc EXCEPT ![p] = r.pc]
        /\ loc' = [loc EXCEPT ![p] = r.loc]
        /\ ret' = [ret EXCEPT ![p] = r.ret]

\* ClassifyBegin without the test for an empty text.
ClassifyBeginAnyText(p, c, keep) ==
    /\ c.op = "classify"
    /\ Enter(p, c, keep)
    /\ IF c.id \notin Registry
         THEN /\ warns' = [warns EXCEPT ![p] = 1]
              /\ loc' = [loc EXCEPT ![p] = LocInit]
              /\ Returns(p, "absent")
         ELSE /\ warns' = [warns EXCEPT ![p] = 0]
              /\ loc' = [loc EXCEPT ![p] =
                           [LocInit EXCEPT !.phase = "totals",
                                           !.key = TotalsKey,
                                           !.toks = Tokenize(c.text)]]
              /\ pc' = [pc EXCEPT ![p] = "cache_get"]
              /\ ret' = [ret EXCEPT ![p] = "none"]

\* exec_classify up to the read of the training counts: lines 133-159.
ClassifyBegin(p, c, keep) ==
    /\ c.op = "classify"
    /\ Enter(p, c, keep)
    /\ IF c.id \notin Registry
         THEN /\ warns' = [warns EXCEPT ![p] = 1]
              /\ loc' = [loc EXCEPT ![p] = LocInit]
              /\ Returns(p, "absent")
         ELSE /\ warns' = [warns EXCEPT ![p] = 0]
              /\ IF IsEmpty(c.text)
                   THEN /\ loc' = [loc EXCEPT ![p] = LocInit]
                        /\ Returns(p, "absent")
                   ELSE /\ loc' = [loc EXCEPT ![p] =
                                     [LocInit EXCEPT !.phase = "totals",
                                                     !.key = TotalsKey,
                                                     !.toks = Tokenize(c.text)]]
                        /\ pc' = [pc EXCEPT ![p] = "cache_get"]
                        /\ ret' = [ret EXCEPT ![p] = "none"]

\* get_or_update, self.get(&hash): lines 207-208.
CacheGet(p) ==
    /\ pc[p] = "cache_get"
    /\ LET hash == loc[p].key
       IN  /\ Logs(p, CacheEv("get", hash))
           /\ IF cache[hash].st # "Unknown"
                THEN Resumes(p, loc[p], Some(cache[hash].w))
                ELSE /\ pc' = [pc EXCEPT ![p] = "store_query"]
                     /\ UNCHANGED <<loc, ret>>
    /\ UNCHANGED <<store, cache, min_learns, call, warns, pre, last, ncalls>>

\* StoreRead caching the key as absent when the store read fails.
StoreReadNegativeOnFailure(p) ==
    /\ pc[p] = "store_query"
    /\ \E ok \in BOOLEAN :
         LET hash == loc[p].key
         IN  /\ Logs(p, Ev("query", hash, 2, 0, 0, ok))
             /\ IF ok
                  THEN /\ loc' = [loc EXCEPT ![p].fetched = StoreQuery(store, hash)]
                       /\ pc' = [pc EXCEPT ![p] = "cache_insert"]
                       /\ UNCHANGED <<ret, cache>>
                  ELSE /\ cache' = [cache EXCEPT ![hash] = Absent]
                       /\ Resumes(p, loc[p], None)
    /\ UNCHANGED <<store, min_learns, call, warns, pre, last, ncalls>>

\* get_or_update, get_token.query(&[h1, h2]): lines 209-211 and 228-231.
StoreRead(p) ==
    /\ pc[p] = "store_query"
    /\ \E ok \in BOOLEAN :
         LET hash == loc[p].key
         IN  /\ Logs(p, Ev("query", hash, 2, 0, 0, ok))
             /\ IF ok
                  THEN /\ loc' = [loc EXCEPT ![p].fetched = StoreQuery(store, hash)]
                       /\ pc' = [pc EXCEPT ![p] = "cache_insert"]
                       /\ UNCHANGED ret
                  ELSE Resumes(p, loc[p], None)
    /\ UNCHANGED <<store, cache, min_learns, call, warns, pre, last, ncalls>>

\* EntryOf caching nothing for a key without a row.
EntryOfNoNegative(row) ==
    IF Len(row) >= 2
    THEN Present(Weights(AsU32(row[1]), AsU32(row[2])))
    ELSE Unknown

\* EntryOf taking the two columns of the row in the other order.
EntryOfSwapped(row) ==
    IF Len(row) >= 2
    THEN Present(Weights(AsU32(row[2]), AsU32(row[1])))
    ELSE Absent

\* The cache entry made from a fetched row: lines 213-226.
EntryOf(row) ==
    IF Len(row) >= 2
    THEN Present(Weights(AsU32(row[1]), AsU32(row[2])))
    ELSE Absent

\* get_or_update, insert_positive / insert_negative: lines 212-227.
CacheInsert(p) ==
    /\ pc[p] = "cache_insert"
    /\ LET hash == loc[p].key
           entry == EntryOf(loc[p].fetched)
       IN  /\ cache' = [cache EXCEPT ![hash] = entry]
           /\ Logs(p, CacheEv(IF entry.st = "Present" THEN "insert_positive"
                               ELSE "insert_negative", hash))
           /\ Resumes(p, [loc[p] EXCEPT !.fetched = NoRow], Some(entry.w))
    /\ UNCHANGED <<store, min_learns, call, warns, pre, last, ncalls>>

\* The classifier kernel consumes the sequence and answers or declines:
\* lines 172-188.
Kernel(p) ==
    /\ pc[p] = "kernel"
    /\ \E kres \in {"declined", "p"} :
         /\ (loc[p].acc = <<>> => kres = "declined")
         /\ loc' = [loc EXCEPT ![p].kres = kres]
         /\ Returns(p, IF kres = "declined" THEN "absent" ELSE "number")
    /\ UNCHANGED <<store, cache, min_learns, call, warns, log, pre, last, ncalls>>

\* ------------------------------------------------------------ scheduling
\* A step of a call in progress.
Step(p) ==
    \/ TrainLookup(p)
    \/ TrainInvalidate(p)
    \/ TrainTotals(p)
    \/ TrainInvalidateTotals(p)
    \/ CacheGet(p)
    \/ StoreRead(p)
    \/ CacheInsert(p)
    \/ Kernel(p)

Begin(p, c, keep) ==
    \/ TrainBegin(p, c, keep)
    \/ ClassifyBegin(p, c, keep)

\* One thread: calls do not overlap.
Next ==
    /\ \/ ncalls < MaxCalls /\ \E c \in Calls : Begin(Main, c, FALSE)
       \/ Step(Main)
    /\ UNCHANGED mon

Spec == Init /\ [][Next]_vars

\* One call of one thread, which is not suspended forever: block_on returns
\* once the store has answered, with success or failure, and the thread goes
\* on with the call.
NextOnce ==
    /\ \/ ncalls = 0 /\ \E c \in Calls : Begin(Main, c, FALSE)
       \/ Step(Main)
    /\ UNCHANGED mon

SpecLive == Init /\ [][NextOnce]_vars /\ WF_vars(Step(Main) /\ UNCHANGED mon)

\* Two threads run concurrently, one call of a registered lookup each, on
\* the same text: Main trains or untrains it while the other thread
\* classifies it.
InitConc == InitWith(InitStores, 0..MaxCount, {t \in Texts : t.words # <<>>})

NextConc ==
    /\ \E p \in Procs :
         \/ /\ pc[p] = "idle"
            /\ \E c \in Calls :
                 /\ c.id \in Registry
                 /\ c.text = mon.text
                 /\ (c.op = "classify") <=> (p # Main)
                 /\ Begin(p, c, FALSE)
         \/ Step(p)
    /\ UNCHANGED mon

SpecConc == InitConc /\ [][NextConc]_vars

\* Two threads on the same one-token text, with a minimum of zero: Main
\* trains or untrains the text and may classify it afterwards, while the
\* other thread classifies it once.
InitTrio == InitWith(InitStores, {0}, {t \in Texts : Len(t.words) = 1})

NextTrio ==
    /\ \E p \in Procs :
         \/ \E c \in Calls :
               /\ c.id \in Registry
               /\ c.text = mon.text
               /\ IF p = Main
                    THEN \/ pc[p] = "idle" /\ c.op # "classify"
                         \/ /\ pc[p] = "done"
                            /\ call[p].op # "classify"
                            /\ c.op = "classify"
                    ELSE pc[p] = "idle" /\ c.op = "classify"
               /\ Begin(p, c, FALSE)
         \/ Step(p)
    /\ UNCHANGED mon

SpecTrio == InitTrio /\ [][NextTrio]_vars

\* One thread calling twice with the same lookup id, text and label.
NextPair ==
    /\ \/ /\ ncalls < 2
          /\ \E c \in Calls :
               /\ ncalls = 1 => /\ c.id = call[Main].id
                                /\ c.text = call[Main].text
                                /\ c.op # "classify" => c.spam = call[Main].spam
               /\ Begin(Main, c, TRUE)
       \/ Step(Main)
    /\ UNCHANGED mon

SpecPair == Init /\ [][NextPair]_vars

\* The scenario "train X as spam, then untrain X as spam", with classify calls
\* anywhere around them.  mon.text is X; mon.st counts how far the scenario
\* went: 1 after a train of X that returned true, 2 after an untrain of X that
\* returned true and followed it; mon.zero tells that the spam total of the
\* store was zero when the train began, mon.cached that the cache held the
\* training counts when the train or the untrain began.
MonStep(m, c, r, before) ==
    IF c.op = "classify" THEN m
    ELSE IF c.op = "train" /\ r = "true"
         THEN [m EXCEPT !.st = 1,
                        !.zero = (RowSpam(before.store[TotalsKey]) = 0),
                        !.cached = (before.cache[TotalsKey].st # "Unknown")]
    ELSE IF c.op = "untrain" /\ r = "true" /\ m.st = 1
         THEN [m EXCEPT !.st = 2,
                        !.cached = (@ \/ before.cache[TotalsKey].st # "Unknown")]
    ELSE [m EXCEPT !.st = 0, !.zero = FALSE, !.cached = FALSE]

\* The scenario starts with a spam total of zero, a minimum of one or more,
\* and a text X that has words; it has two calls more than the others, for
\* the train and the untrain.
InitS4 ==
    InitWith({st \in InitStores : RowSpam(st[TotalsKey]) = 0}, 1..MaxCount,
             {t \in Texts : t.words # <<>>})

NextS4 ==
    /\ \/ /\ ncalls < MaxCalls + 2
          /\ \E c \in Calls :
               /\ c.id \in Registry
               /\ c.op # "classify" => c.text = mon.text /\ c.spam
               /\ Begin(Main, c, FALSE)
       \/ Step(Main)
    /\ mon' = IF pc'[Main] = "done"
              THEN MonStep(mon, call'[Main], ret'[Main], pre'[Main])
              ELSE mon

SpecS4 == InitS4 /\ [][NextS4]_vars

\* ================================================================ claims
Events(l) == {l[i] : i \in DOMAIN l}
StoreEvents(l) == {ev \in Events(l) : ev.e \in {"lookup", "query"}}
Finished(p, ops) == pc[p] = "done" /\ call[p].op \in ops
Words(text) == {text.words[i] : i \in DOMAIN text.words}
RowWeights(row) == Weights(RowSpam(row), RowHam(row))

\* The training counts a call that began in snapshot snap resolves, when no
\* other call runs meanwhile and the store answers: the cached ones, else the
\* ones of the store.
TotalsOf(snap) ==
    IF snap.cache[TotalsKey].st # "Unknown" THEN snap.cache[TotalsKey].w
    ELSE RowWeights(snap.store[TotalsKey])
TotalsReadFailed(l) ==
    \E ev \in Events(l) : ev.e = "query" /\ ev.k = TotalsKey /\ ~ev.ok
BelowMinimum(w) == w.spam < min_learns \/ w.ham < min_learns

\* C1: a classify whose resolved training counts are below min_learns on the
\* spam or on the ham axis returns absent, looks up no token and does not
\* invoke the kernel; whenever the kernel is invoked, the counts it is given
\* are at least min_learns on both axes.
C1_MinimumTrainingGate ==
    \A p \in Procs :
        /\ ( /\ Finished(p, {"classify"})
             /\ call[p].id \in Registry
             /\ ~IsEmpty(call[p].text)
             /\ ~TotalsReadFailed(log[p])
             /\ BelowMinimum(TotalsOf(pre[p]))
             => /\ ret[p] = "absent"
                /\ \A ev \in Events(log[p]) : ev.k = TotalsKey
                /\ loc[p].kinv = None
                /\ loc[p].kres = "none" )
        /\ ( loc[p].kinv # None
             => /\ loc[p].kinv[1].spam_learns >= min_learns
                /\ loc[p].kinv[1].ham_learns >= min_learns
                /\ loc[p].kinv[1].spam_learns = TotalsOf(pre[p]).spam
                /\ loc[p].kinv[1].ham_learns = TotalsOf(pre[p]).ham )

\* C1 witness: a classify of a text with words stopped at the gate, with
\* enough ham but not enough spam.
C1_Witness ==
    \E p \in Procs :
        /\ Finished(p, {"classify"})
        /\ call[p].id \in Registry
        /\ call[p].text.words # <<>>
        /\ ~TotalsReadFailed(log[p])
        /\ TotalsOf(pre[p]).spam < min_learns
        /\ TotalsOf(pre[p]).ham >= min_learns
        /\ ret[p] = "absent"

\* C2: when a train or untrain returns true (calls not overlapping, whatever
\* the cache held before), the cache entry of every token hash of its text and
\* the entry of TotalsKey are Unknown.
C2_CacheInvalidationAfterTrain ==
    \A p \in Procs :
        Finished(p, {"train", "untrain"}) /\ ret[p] = "true"
        => /\ \A h \in Words(call[p].text) : cache[h] = Unknown
           /\ cache[TotalsKey] = Unknown

\* C2 witness: a train returned true that began with the training counts and
\* one of its tokens cached.
C2_Witness ==
    \E p \in Procs :
        /\ Finished(p, {"train"})
        /\ ret[p] = "true"
        /\ pre[p].cache[TotalsKey].st = "Present"
        /\ \E h \in Words(call[p].text) : pre[p].cache[h].st # "Unknown"
        /\ cache[TotalsKey] = Unknown

\* The totals a train (d = 1) or untrain (d = -1) of a document with the given
\* label is to leave, from the totals row it found.
ExpectedTotals(row, op, is_spam) ==
    LET d == IF op = "train" THEN 1 ELSE 0 - 1
    IN  IF is_spam THEN Weights(Sat(RowSpam(row) + d), RowHam(row))
        ELSE Weights(RowSpam(row), Sat(RowHam(row) + d))

\* C3: a train or untrain that returned true has changed the totals row by
\* one on the axis of the label (up on train, down on untrain), through the
\* read-modify-write operation of the store.
C3_TotalsUpdated ==
    \A p \in Procs :
        Finished(p, {"train", "untrain"}) /\ ret[p] = "true"
        => /\ RowWeights(store[TotalsKey])
                = ExpectedTotals(pre[p].store[TotalsKey], call[p].op, call[p].spam)
           /\ \E ev \in Events(log[p]) : ev.e = "lookup" /\ ev.k = TotalsKey /\ ev.ok

\* C4 (as claimed): after train(T, L) and then untrain(T, L), both returning
\* true, every row of the store is as query saw it before the train.
C4_SymmetryUnderQuery ==
    \A p \in Procs :
        /\ Finished(p, {"untrain"}) /\ ret[p] = "true"
        /\ last[p].call = [call[p] EXCEPT !.op = "train"] /\ last[p].ret = "true"
        => \A k \in Keys : StoreQuery(store, k) = StoreQuery(last[p].pre.store, k)

\* C4 (amended): after train(T, L) and then untrain(T, L), both returning
\* true, every key that had a row has the same row again and holds the same
\* weights; a key that had no row has none, or a row of zero counters when it
\* is a token of T.
C4_SymmetryOfWeights ==
    \A p \in Procs :
        /\ Finished(p, {"untrain"}) /\ ret[p] = "true"
        /\ last[p].call = [call[p] EXCEPT !.op = "train"] /\ last[p].ret = "true"
        => \A k \in Keys :
              LET before == last[p].pre.store[k]
              IN  /\ RowWeights(store[k]) = RowWeights(before)
                  /\ before # NoRow => store[k] = before
                  /\ before = NoRow /\ k \notin Words(call[p].text) => store[k] = NoRow
                  /\ before = NoRow /\ k \in Words(call[p].text) => store[k] = <<0, 0>>

\* C4 witness: the pair train, untrain returned true on a text with a word
\* that had a row with counts and a word that had none.
C4_Witness ==
    \E p \in Procs :
        /\ Finished(p, {"untrain"}) /\ ret[p] = "true"
        /\ last[p].call = [call[p] EXCEPT !.op = "train"] /\ last[p].ret = "true"
        /\ \E h \in Words(call[p].text) : last[p].pre.store[h] = NoRow
        /\ \E h \in Words(call[p].text) : RowSpam(last[p].pre.store[h]) > 0

\* The token keys a classify found without a row: a query that the store
\* answered, for a key that had no row.
Missed(l, snap) ==
    {ev.k : ev \in {e \in Events(l) : /\ e.e = "query" /\ e.ok /\ e.k # TotalsKey
                                      /\ snap.store[e.k] = NoRow}}

\* C5: a token that a classify found without a row in the store is cached as
\* Absent, and the next classify of the same text (no call in between, hence
\* no invalidation) reads none of these tokens from the store again.
C5_NegativeCaching ==
    \A p \in Procs :
        /\ Finished(p, {"classify"})
        /\ last[p].call = call[p]
        => \A k \in Missed(last[p].log, last[p].pre) :
              /\ pre[p].cache[k] = Absent
              /\ cache[k] = Absent
              /\ \A ev \in StoreEvents(log[p]) : ev.k # k
              /\ \E ev \in Events(log[p]) : ev.e = "get" /\ ev.k = k

\* C5 witness: the second classify of a text ended, the first one having
\* missed a token; the second one resolved it without a store read and went
\* on to the kernel.
C5_Witness ==
    \E p \in Procs :
        /\ Finished(p, {"classify"})
        /\ last[p].call = call[p]
        /\ Missed(last[p].log, last[p].pre) # {}
        /\ StoreEvents(log[p]) = {}
        /\ loc[p].kres # "none"

\* The events of a log before its last one.
Front(l) == {l[i] : i \in 1..(Len(l) - 1)}
FailedEvents(l) == {ev \in Events(l) : ~ev.ok}

\* C6: a train or untrain runs only as long as no store operation failed;
\* the failed operation is the last thing the call did and the call returned
\* false; the deltas applied before it are in the store, every other row and
\* the totals row are as they were, and the cache entry of the token whose
\* delta failed was not invalidated.
C6_TrainFailureImmediate ==
    \A p \in Procs :
        call[p].op \in {"train", "untrain"} /\ FailedEvents(log[p]) # {}
        => /\ pc[p] = "done"
           /\ ret[p] = "false"
           /\ ~log[p][Len(log[p])].ok
           /\ \A ev \in Front(log[p]) : ev.ok
           /\ \A h \in Hashes :
                IF \E ev \in Front(log[p]) : ev.e = "lookup" /\ ev.k = h
                THEN \E ev \in Front(log[p]) :
                        /\ ev.e = "lookup" /\ ev.k = h
                        /\ store[h] = <<Sat(RowSpam(pre[p].store[h]) + ev.a),
                                         Sat(RowHam(pre[p].store[h]) + ev.b)>>
                ELSE store[h] = pre[p].store[h]
           /\ LET failed == log[p][Len(log[p])]
              IN  failed.e = "lookup"
                  => /\ cache[failed.k] = pre[p].cache[failed.k]
                     /\ \A ev \in Events(log[p]) :
                           ~(ev.e = "invalidate" /\ ev.k = failed.k)
                     /\ store[TotalsKey] = pre[p].store[TotalsKey]
                     /\ \A ev \in Events(log[p]) : ev.k # TotalsKey

\* C6 witness: a train that applied the delta of one token, invalidated it,
\* and failed on the next token, whose cache entry was there.
C6_Witness ==
    \E p \in Procs :
        /\ Finished(p, {"train"})
        /\ Len(log[p]) = 3
        /\ log[p][1].e = "lookup" /\ log[p][1].ok
        /\ log[p][3].e = "lookup" /\ ~log[p][3].ok
        /\ cache[log[p][3].k].st # "Unknown"
        /\ store[log[p][1].k] # pre[p].store[log[p][1].k]
        /\ ret[p] = "false"

\* The tokens of a classify whose store read failed, and the (idx, Weights)
\* pairs of the others, resolved from the cache or the store as the call
\* found them.
FailedReads(l) ==
    {i \in DOMAIN l : l[i].e = "query" /\ l[i].k # TotalsKey /\ ~l[i].ok}
WeightsOf(snap, k) ==
    IF snap.cache[k].st # "Unknown" THEN snap.cache[k].w
    ELSE RowWeights(snap.store[k])

\* C7: a classify whose read of the training counts failed returns absent
\* without invoking the kernel; a classify that passed the gate and lost some
\* but not all of its tokens to failed store reads still invokes the kernel,
\* with one pair for every other token, and returns what the kernel answers.
C7_ClassifyIOTolerance ==
    \A p \in Procs :
        Finished(p, {"classify"})
        => /\ TotalsReadFailed(log[p])
                => /\ ret[p] = "absent"
                   /\ loc[p].kinv = None
                   /\ loc[p].kres = "none"
                   /\ Len(log[p]) = 2
           /\ LET n == Len(Tokenize(call[p].text))
                  f == Cardinality(FailedReads(log[p]))
              IN  0 < f /\ f < n
                  => /\ loc[p].kinv # None
                     /\ loc[p].kres # "none"
                     /\ Len(loc[p].acc) = n - f
                     /\ \A j \in DOMAIN loc[p].acc :
                           LET tok == Tokenize(call[p].text)[loc[p].acc[j].idx]
                           IN  loc[p].acc[j].inner = WeightsOf(pre[p], tok.inner)
                     /\ ret[p] = IF loc[p].kres = "declined" THEN "absent" ELSE "number"

\* C7 witness: a classify of two tokens lost the first to a failed read and
\* returned a number.
C7_Witness ==
    \E p \in Procs :
        /\ Finished(p, {"classify"})
        /\ Len(Tokenize(call[p].text)) = 2
        /\ Cardinality(FailedReads(log[p])) = 1
        /\ Len(loc[p].acc) = 1
        /\ loc[p].acc[1].idx = 2
        /\ ret[p] = "number"

\* C7 witness of the other half: the read of the training counts failed.
C7_WitnessTotals ==
    \E p \in Procs :
        /\ Finished(p, {"classify"})
        /\ TotalsReadFailed(log[p])
        /\ ret[p] = "absent"

FailureValue(op) == IF op = "classify" THEN "absent" ELSE "false"

\* C8: a call with an empty text, whatever its lookup id and label, returns
\* false (train, untrain) or absent (classify), issues no store operation and
\* no cache operation, and leaves store and cache as they were.
C8_EmptyInput ==
    \A p \in Procs :
        Finished(p, Ops) /\ IsEmpty(call[p].text)
        => /\ ret[p] = FailureValue(call[p].op)
           /\ log[p] = <<>>
           /\ store = pre[p].store
           /\ cache = pre[p].cache

\* C8 witness: a classify of the empty text on a registered lookup returned,
\* with the training counts in the cache.
C8_Witness ==
    \E p \in Procs :
        /\ Finished(p, {"classify"})
        /\ IsEmpty(call[p].text)
        /\ call[p].id \in Registry
        /\ cache[TotalsKey].st = "Present"
        /\ ret[p] = "absent"

\* C9: a call with a lookup id that is not registered returns false (train,
\* untrain) or absent (classify), emits exactly one WARN record, and leaves
\* store and cache as they were, without any operation on them.
C9_UnknownLookup ==
    \A p \in Procs :
        Finished(p, Ops) /\ call[p].id \notin Registry
        => /\ ret[p] = FailureValue(call[p].op)
           /\ warns[p] = 1
           /\ log[p] = <<>>
           /\ store = pre[p].store
           /\ cache = pre[p].cache

\* C9 witness: a train of a text with words on an unregistered lookup
\* returned false with one WARN record.
C9_Witness ==
    \E p \in Procs :
        /\ Finished(p, {"train"})
        /\ call[p].id \notin Registry
        /\ call[p].text.words # <<>>
        /\ warns[p] = 1
        /\ ret[p] = "false"

\* C10: with min_learns at least one and a spam total of zero when the train
\* began, after train(X, spam) and then untrain(X, spam) both returned true,
\* every later classify returns absent and does not invoke the kernel, also
\* when the training counts were in the cache when the train or the untrain
\* began.
C10_AbsentAfterTrainUntrain ==
    mon.st = 2 /\ mon.zero /\ min_learns >= 1
    => \A p \in Procs :
          Finished(p, {"classify"})
          => /\ ret[p] = "absent"
             /\ loc[p].kinv = None

\* C10 witness: a classify of a text with words returned absent after the
\* pair train, untrain, the training counts having been cached before.
C10_Witness ==
    /\ mon.st = 2 /\ mon.zero /\ mon.cached /\ min_learns >= 1
    /\ \E p \in Procs :
          /\ Finished(p, {"classify"})
          /\ call[p].text.words # <<>>
          /\ Len(log[p]) > 0
          /\ ret[p] = "absent"

\* C11 (as claimed): a call with an empty text emits no WARN record, whatever
\* its lookup id and label.
C11_EmptyTextSilent ==
    \A p \in Procs :
        Finished(p, Ops) /\ IsEmpty(call[p].text) => warns[p] = 0

\* C11 (amended): a call with an empty text emits no WARN record when its
\* lookup id is registered, and exactly one when it is not, whatever the label.
C11_EmptyTextSilentWhenRegistered ==
    \A p \in Procs :
        Finished(p, Ops) /\ IsEmpty(call[p].text)
        => warns[p] = IF call[p].id \in Registry THEN 0 ELSE 1

\* C11 witness: an untrain of the empty text on a registered lookup returned
\* false without a WARN record.
C11_Witness ==
    \E p \in Procs :
        /\ Finished(p, {"untrain"})
        /\ IsEmpty(call[p].text)
        /\ call[p].id \in Registry
        /\ call[p].spam
        /\ ret[p] = "false"
        /\ warns[p] = 0

\* The positions of a call's log holding the events e, and those holding a
\* store operation on key k.
At(l, e) == {i \in DOMAIN l : l[i].e = e}
StoreOpsOn(l, k) == {i \in DOMAIN l : l[i].e \in {"lookup", "query"} /\ l[i].k = k}

\* The number of tokens of the text that carry hash h.
Occurrences(text, h) == Cardinality({i \in DOMAIN text.words : text.words[i] = h})

\* The delta of n occurrences on the axis of the call's label, negated for
\* untrain.
AxisDelta(c, n) ==
    LET v == IF c.op = "train" THEN n ELSE 0 - n
    IN  IF c.spam THEN <<v, 0>> ELSE <<0, v>>

\* The call has left the loop over the tokens of its model.
LoopDone(p) ==
    \/ pc[p] \in {"train_totals", "train_invalidate_totals"}
    \/ pc[p] = "done" /\ StoreOpsOn(log[p], TotalsKey) # {}

\* C12: every store update a train or untrain issues is for a hash of the
\* document, no hash is updated twice, the delta on the axis of the label is
\* the number of times the hash was emitted (negated for untrain) and the
\* delta on the other axis is 0; once the loop is over every distinct hash of
\* the document has received its update.
C12_PerTokenDelta ==
    \A p \in Procs :
        call[p].op \in {"train", "untrain"} =>
            LET l == log[p]
                text == call[p].text
            IN  /\ \A i \in At(l, "lookup") :
                      /\ l[i].k \in Words(text)
                      /\ <<l[i].a, l[i].b>> =
                             AxisDelta(call[p], Occurrences(text, l[i].k))
                /\ \A i, j \in At(l, "lookup") : l[i].k = l[j].k => i = j
                /\ LoopDone(p) =>
                      \A h \in Words(text) : \E i \in At(l, "lookup") : l[i].k = h

\* C12 witness: an untrain of a ham document that emits the same hash twice
\* returned true after one update of that hash with the delta (0, -2).
C12_Witness ==
    \E p \in Procs :
        /\ Finished(p, {"untrain"})
        /\ ret[p] = "true"
        /\ ~call[p].spam
        /\ \E h \in Hashes :
              /\ Occurrences(call[p].text, h) = 2
              /\ \E i \in At(log[p], "lookup") :
                    log[p][i].k = h /\ log[p][i].a = 0 /\ log[p][i].b = 0 - 2

\* C13: inside a train or untrain, the cache entry of a token is invalidated
\* only after a store update of that token has succeeded, the totals row is
\* operated on only after the update of every token of the model has
\* succeeded, and the cache entry of TotalsKey is invalidated only after the
\* operation on the totals row has succeeded.
C13_TrainOrdering ==
    \A p \in Procs :
        call[p].op \in {"train", "untrain"} =>
            LET l == log[p]
                OkBefore(k, i) == \E j \in StoreOpsOn(l, k) : j < i /\ l[j].ok
            IN  /\ \A i \in At(l, "invalidate") : OkBefore(l[i].k, i)
                /\ \A i \in StoreOpsOn(l, TotalsKey) :
                      \A h \in Words(call[p].text) : OkBefore(h, i)
                /\ \A i \in At(l, "invalidate") :
                      l[i].k # TotalsKey =>
                          \E j \in At(l, "lookup") : j = i - 1 /\ l[j].k = l[i].k

\* C13 witness: a train of a document with two distinct hashes returned true,
\* its log being update, invalidate, update, invalidate, totals, invalidate.
C13_Witness ==
    \E p \in Procs :
        /\ Finished(p, {"train"})
        /\ ret[p] = "true"
        /\ Cardinality(Words(call[p].text)) = 2
        /\ Len(log[p]) = 6
        /\ log[p][5].k = TotalsKey /\ log[p][5].ok
        /\ log[p][6] = CacheEv("invalidate", TotalsKey)

\* The token gets of a classify's log, and the position in the text of the
\* token that the event at i of the log belongs to.
TokenGets(l) == {i \in At(l, "get") : l[i].k # TotalsKey}
PosOf(l, i) == Cardinality({j \in TokenGets(l) : j <= i})

\* C14: when get_or_update finds no entry for a hash and the store read fails,
\* it returns None (the token gets no pair, the read of the training counts
\* ends the call with absent), nothing is inserted for the hash, and the next
\* get_or_update for the hash reads the store again.
C14_FailedReadStaysUnknown ==
    \A p \in Procs :
        call[p].op = "classify" =>
            LET l == log[p]
            IN  \A i \in DOMAIN l :
                    l[i].e = "query" /\ ~l[i].ok =>
                        LET k == l[i].k
                            later == {j \in DOMAIN l : j > i /\ l[j].k = k}
                        IN  /\ i > 1 /\ l[i - 1] = CacheEv("get", k)
                            /\ later = {} => cache[k] = Unknown
                            /\ \A j \in later :
                                  (\A j2 \in later : j <= j2) =>
                                      /\ l[j] = CacheEv("get", k)
                                      /\ IF j < Len(l)
                                           THEN l[j + 1].e = "query" /\ l[j + 1].k = k
                                           ELSE pc[p] = "store_query" /\ loc[p].key = k
                            /\ IF k = TotalsKey
                                 THEN /\ i = Len(l)
                                      /\ pc[p] = "done" /\ ret[p] = "absent"
                                      /\ loc[p].kinv = None
                                 ELSE \A n \in DOMAIN loc[p].acc :
                                          loc[p].acc[n].idx # PosOf(l, i)

\* C14 witness: a classify of a text that emits the same hash twice ended
\* after the store read of the first token failed and that of the second
\* token, for the same hash, succeeded.
C14_Witness ==
    \E p \in Procs :
        /\ Finished(p, {"classify"})
        /\ \E h \in Hashes :
              /\ Occurrences(call[p].text, h) = 2
              /\ \E i, j \in DOMAIN log[p] :
                    /\ i < j
                    /\ log[p][i] = Ev("query", h, 2, 0, 0, FALSE)
                    /\ log[p][j] = Ev("query", h, 2, 0, 0, TRUE)
              /\ Len(loc[p].acc) = 1
              /\ loc[p].acc[1].idx = 2

\* get_or_update hands W back to exec_classify in this step: it becomes the
\* training counts, or the weights of the pair of the token being resolved.
Returned(p, W) ==
    IF loc[p].phase = "totals"
    THEN loc'[p].learns = W
    ELSE loc'[p].acc =
            Append(loc[p].acc, [inner |-> W, idx |-> loc[p].toks[loc[p].i].idx])

\* C15: when get_or_update fills a missing entry for key k with Present(W), W
\* is the {spam, ham} row the store returned for k in the read of that call of
\* get_or_update and W is what the caller receives; a get_or_update that finds
\* Present(W) hands W to the caller without a store read.
C15_CacheReflectsRead ==
    [][\A p \in Procs :
          log'[p] # log[p] =>
              LET k == loc[p].key
                  row == loc[p].fetched
              IN  /\ pc[p] = "store_query" /\ pc'[p] = "cache_insert"
                     => loc'[p].fetched = store[k]
                  /\ pc[p] = "cache_insert" /\ Len(row) >= 2
                     => /\ cache'[k] = Present(Weights(row[1], row[2]))
                        /\ Returned(p, Weights(row[1], row[2]))
                  /\ pc[p] = "cache_get" /\ cache[k].st = "Present"
                     => /\ Returned(p, cache[k].w)
                        /\ log'[p] = Append(log[p], CacheEv("get", k))
                        /\ pc'[p] # "store_query"
                        /\ UNCHANGED <<store, cache>>]_vars

\* C15 witness: a classify has just cached, for a token whose row has
\* different spam and ham counters, the weights of the row it read, and the
\* pair of the token carries them.
C15_Witness ==
    \E p \in Procs :
        /\ call[p].op = "classify"
        /\ loc[p].phase = "tokens"
        /\ log[p] # <<>>
        /\ LET ev == log[p][Len(log[p])]
           IN  /\ ev.e = "insert_positive"
               /\ cache[ev.k].st = "Present"
               /\ cache[ev.k].w.spam # cache[ev.k].w.ham
               /\ cache[ev.k].w = RowWeights(store[ev.k])
               /\ loc[p].acc # <<>>
               /\ loc[p].acc[Len(loc[p].acc)].inner = cache[ev.k].w

\* The sequence of pairs is in the hands of the kernel.
Handed(p) ==
    call[p].op = "classify" /\ (pc[p] = "kernel" \/ loc[p].kres # "none")

\* The positions in the text of the tokens whose store read failed.
FailedPos(l) == {PosOf(l, i) : i \in FailedReads(l)}

\* C16: the sequence handed to the kernel holds, in the order the tokens were
\* emitted, exactly one pair for every token whose resolution returned Some,
\* with the token's idx and the resolved weights, zero weights included, and
\* no pair for a token whose resolution returned None; the training counts
\* are handed over as (ham_learns, spam_learns).
C16_ClassifierInput ==
    \A p \in Procs :
        Handed(p) =>
            LET toks == Tokenize(call[p].text)
                acc == loc[p].acc
                resolved == {toks[j].idx : j \in DOMAIN toks} \ FailedPos(log[p])
            IN  /\ Len(acc) = Cardinality(resolved)
                /\ \A n \in DOMAIN acc :
                      /\ acc[n].idx \in resolved
                      /\ acc[n].inner = WeightsOf(pre[p], toks[acc[n].idx].inner)
                /\ \A m, n \in DOMAIN acc : m < n => acc[m].idx < acc[n].idx
                /\ loc[p].kinv = Some([ham_learns |-> TotalsOf(pre[p]).ham,
                                       spam_learns |-> TotalsOf(pre[p]).spam])

\* C16 witness: the kernel was handed three things: training counts that
\* differ on the two axes, the pair of a first token that has no row in the
\* store, with zero weights, and the pair of a second token.
C16_Witness ==
    \E p \in Procs :
        /\ Handed(p)
        /\ loc[p].kinv # None
        /\ loc[p].kinv[1].ham_learns # loc[p].kinv[1].spam_learns
        /\ Len(loc[p].acc) = 2
        /\ loc[p].acc[1] = [inner |-> WeightsDefault, idx |-> 1]
        /\ cache[call[p].text.words[1]] = Absent
        /\ loc[p].acc[2].idx = 2

\* C16 witness of the other half: the store read of the first of two tokens
\* failed and the kernel was handed the pair of the second alone.
C16_WitnessNone ==
    \E p \in Procs :
        /\ Handed(p)
        /\ FailedPos(log[p]) = {1}
        /\ Len(loc[p].acc) = 1
        /\ loc[p].acc[1].idx = 2

\* The weights of key k in the store before the call of Main began, and after
\* the one update Main's train or untrain makes of k.
OldWeights(k) == RowWeights(pre[Main].store[k])
NewWeights(k) ==
    LET d == AxisDelta(call[Main], Occurrences(call[Main].text, k))
    IN  RowWeights(StoreLookup(pre[Main].store, k, d[1], d[2])[k])

\* The classify of thread q uses weights w for a token of hash k.
Uses(q, k, w) ==
    \E n \in DOMAIN loc[q].acc :
        /\ call[q].text.words[loc[q].acc[n].idx] = k
        /\ loc[q].acc[n].inner = w

\* The positions of Main's log where an update of a token was applied.
Applied(l) == {i \in At(l, "lookup") : l[i].ok}

\* C17 (as claimed): the updates of a train that a concurrent classify sees
\* are a prefix of the order in which the train applied them: the classify
\* never uses the new value of a key together with the old value of a key
\* the train updated earlier.
C17_PrefixVisibility ==
    \A q \in Procs \ {Main} :
        call[q].op = "classify" /\ call[Main].op = "train" =>
            \A i, j \in Applied(log[Main]) :
                LET a == log[Main][i].k
                    b == log[Main][j].k
                IN  i < j =>
                        ~(/\ Uses(q, b, NewWeights(b))
                          /\ Uses(q, a, OldWeights(a)))

\* C17 (amended): every weight a classify resolves for a token while one
\* train or untrain runs is the value of the token's key before that call's
\* update of it, or the value after it once the update was applied.
C17_OldOrNewValue ==
    \A q \in Procs \ {Main} :
        call[q].op = "classify" =>
            \A n \in DOMAIN loc[q].acc :
                LET k == call[q].text.words[loc[q].acc[n].idx]
                    w == loc[q].acc[n].inner
                IN  \/ w = OldWeights(k)
                    \/ /\ w = NewWeights(k)
                       /\ \E i \in Applied(log[Main]) : log[Main][i].k = k

\* C17 witness: a train applied its update of one key and then that of
\* another, and a classify that ran meanwhile ended having used the old value
\* of the first and the new value of the second.
C17_Witness ==
    \E q \in Procs \ {Main} :
        /\ Finished(q, {"classify"})
        /\ Finished(Main, {"train"})
        /\ \E i, j \in Applied(log[Main]) :
              LET a == log[Main][i].k
                  b == log[Main][j].k
              IN  /\ i < j
                  /\ NewWeights(a) # OldWeights(a)
                  /\ NewWeights(b) # OldWeights(b)
                  /\ Uses(q, a, OldWeights(a))
                  /\ Uses(q, b, NewWeights(b))

\* A train or untrain is in its loop or at its training counts.
InTrain(p) ==
    /\ call[p].op \in {"train", "untrain"}
    /\ pc[p] \in {"train_lookup", "train_invalidate", "train_totals",
                  "train_invalidate_totals"}

\* The train or untrain has returned: true after one update of every distinct
\* hash and one operation on the training counts, none of which failed, or
\* false with a failed store operation as the last thing it did; in both
\* cases no hash was updated twice and the training counts at most once.
TrainEnd(p) ==
    /\ Finished(p, {"train", "untrain"})
    /\ LET l == log[p]
           hashes == Words(call[p].text)
       IN  /\ \A i, j \in At(l, "lookup") : l[i].k = l[j].k => i = j
           /\ \A i \in At(l, "lookup") : l[i].k \in hashes
           /\ Cardinality(StoreOpsOn(l, TotalsKey)) <= 1
           /\ IF ret[p] = "true"
                THEN /\ FailedEvents(l) = {}
                     /\ \A h \in hashes : \E i \in At(l, "lookup") : l[i].k = h
                     /\ Cardinality(StoreOpsOn(l, TotalsKey)) = 1
                ELSE /\ ret[p] = "false"
                     /\ l # <<>>
                     /\ l[Len(l)].e \in {"lookup", "query"}
                     /\ ~l[Len(l)].ok
                     /\ \A i \in 1..(Len(l) - 1) : l[i].ok

\* C18: when every store call returns, a train or untrain that has started
\* its store operations returns: true after each token update and the
\* operation on the training counts were issued once, or false at its first
\* failing store operation; it never issues more than one update per distinct
\* hash and one operation on the training counts.
C18_Termination == \A p \in Procs : InTrain(p) ~> TrainEnd(p)

\* C18 witness: a train of two distinct hashes returned false at its second
\* update, the first having succeeded.
C18_Witness ==
    \E p \in Procs :
        /\ TrainEnd(p)
        /\ ret[p] = "false"
        /\ Cardinality(Words(call[p].text)) = 2
        /\ Len(log[p]) = 3
        /\ log[p][1].e = "lookup" /\ log[p][1].ok
        /\ log[p][3].e = "lookup" /\ ~log[p][3].ok

\* C19: once all calls have returned, every Present(W) cache entry of a key
\* holds the weights of the key's row in the store, and no key that has a row
\* in the store is cached as Absent.
C19_NoStaleEntry ==
    (\A p \in Procs : pc[p] = "done") =>
        \A k \in Keys :
            /\ cache[k].st = "Present" => cache[k].w = RowWeights(store[k])
            /\ cache[k].st = "Absent" => store[k] = NoRow

\* The step is one of thread p.
Acted(p) == pc'[p] # pc[p] \/ log'[p] # log[p] \/ loc'[p] # loc[p]

\* C20: a step of a classify leaves the store as it is, the store operations
\* of a classify are queries with two columns, and the cache entries a
\* classify step changes were Unknown and become Present or Absent; a train
\* or untrain neither reads the cache nor inserts into it, and the cache
\* entries its steps change become Unknown and belong to keys whose store
\* operation succeeded.
C20_Frame ==
    [][\A p \in Procs :
          Acted(p) =>
              IF call'[p].op = "classify"
              THEN /\ store' = store
                   /\ \A ev \in StoreEvents(log'[p]) : ev.e = "query" /\ ev.n = 2
                   /\ \A k \in Keys :
                         cache'[k] # cache[k] =>
                             /\ cache[k] = Unknown
                             /\ cache'[k].st \in {"Present", "Absent"}
              ELSE /\ \A ev \in Events(log'[p]) :
                         ev.e \in {"lookup", "query", "invalidate"}
                   /\ \A k \in Keys :
                         cache'[k] # cache[k] =>
                             /\ cache'[k] = Unknown
                             /\ \E i \in StoreOpsOn(log'[p], k) : log'[p][i].ok]_vars

====
